---- MODULE Spec2Model ----
(***************************************************************************)
(* A model of msgbuzz/rabbitmq.py: the RabbitMQ message bus, its consumer  *)
(* loop (RabbitMqConsumer.run), the confirm handle (ack / nack / retry)    *)
(* and the part of the broker the code configures in register_queues:      *)
(* exchanges, bindings, dead-letter arguments, per-message TTL, x-death.   *)
(***************************************************************************)
EXTENDS Naturals, Integers, Sequences, FiniteSets, TLC

\* ------------------------------------------------------------------ bounds
\* Number of messages the publisher sends.
NumMsgs == 2
\* Number of times the broker side may end a connection cycle: by a connection
\* error, or by cancelling the consumer (start_consuming then returns).
MaxDisruptions == 1
\* Number of interrupts (Ctrl+C) the environment may deliver.
MaxInterrupts == 1
\* Number of calls a handler that misuses its confirm handle makes on it.
MaxCalls == 2
\* Number of deliveries of a message on which its handler does so.
MaxMisused == 1

\* ------------------------------------------------------- program constants
\* RabbitMqConsumerConfirm.retry(self, delay=60000, max_retries=3)
DefaultDelay == 60000
DefaultMaxRetries == 3
\* channel.basic_qos(prefetch_count=1)
PrefetchCount == 1

\* The subscription the consumer serves: bus.on(Topic, Group, callback).
Topic == "orders"
Group == "billing"

\* Topic names, client groups and callbacks that on() is called with.
TopicNames == {"orders", "orders.eu"}
GroupNames == {"billing", "eu.billing"}
Handlers == {"h1", "h2"}

\* ------------------------------------------- RabbitMqQueueNameGenerator
exchange_name(topic, group) == topic
queue_name(topic, group) == topic \o "." \o group
retry_queue_name_failed(topic, group) == queue_name(topic, group) \o "__failed"
retry_queue_name(topic, group) == queue_name(topic, group) \o "__retry"
retry_exchange(topic, group) == retry_queue_name(topic, group)
dlx_queue_name(topic, group) == queue_name(topic, group) \o "__failed"
dlx_exchange(topic, group) == dlx_queue_name(topic, group)

MainQ == queue_name(Topic, Group)
RetryQ == retry_queue_name(Topic, Group)
DlxQ == dlx_queue_name(Topic, Group)

\* --------------------------------------------------------- Python values
\* None is the empty sequence and a value v is <<v>>; a dict is a function
\* from its keys; a str is the sequence of its characters.
None == <<>>
Some(v) == <<v>>

Digit(d) == <<"0", "1", "2", "3", "4", "5", "6", "7", "8", "9">>[d + 1]

RECURSIVE Str(_)
\* str(n) of a non-negative int: its decimal digits.
Str(n) == IF n < 10 THEN <<Digit(n)>> ELSE Str(n \div 10) \o <<Digit(n % 10)>>

DigitValue(c) == CHOOSE d \in 0..9 : Digit(d) = c

RECURSIVE ParseInt(_)
\* The broker's reading of an expiration string: decimal digits to a number.
ParseInt(s) ==
    IF Len(s) = 0 THEN 0
    ELSE 10 * ParseInt(SubSeq(s, 1, Len(s) - 1)) + DigitValue(s[Len(s)])

\* dict.get(key): the value, or None.
Get(d, key) == IF key \in DOMAIN d THEN Some(d[key]) ELSE None

\* properties of a message published without properties (bus._publish).
NoProperties == [headers |-> None, expiration |-> None]

\* -------------------------------------------------------- message_expired
\* The integer x-max-retries is compared with the count of the first x-death
\* record; each operand of the `and` chain is tested for Python truth, so
\* None, an empty dict, an empty list and the integer 0 all end the chain.
message_expired_late(properties) ==
    /\ properties.headers # None
    /\ DOMAIN properties.headers[1] # {}
    /\ Get(properties.headers[1], "x-death") # None
    /\ properties.headers[1]["x-death"] # <<>>
    /\ Get(properties.headers[1], "x-max-retries") # None
    /\ properties.headers[1]["x-max-retries"] # 0
    /\ properties.headers[1]["x-death"][1].count
          > properties.headers[1]["x-max-retries"] + 1

message_expired(properties) ==
    /\ properties.headers # None
    /\ DOMAIN properties.headers[1] # {}
    /\ Get(properties.headers[1], "x-death") # None
    /\ properties.headers[1]["x-death"] # <<>>
    /\ Get(properties.headers[1], "x-max-retries") # None
    /\ properties.headers[1]["x-max-retries"] # 0
    /\ properties.headers[1]["x-death"][1].count
          > properties.headers[1]["x-max-retries"]

\* ----------------------------------------------------------------- broker
\* Queues a message published to `exchange` with routing key `key` reaches:
\* the default exchange "" routes to the queue named by the key, a fanout
\* exchange to every bound queue, a direct exchange to the queues bound
\* with that key.  An undeclared exchange or queue receives nothing.
Route_keyed(exs, binds, qs, exchange, key) ==
    IF exchange = "" THEN {key} \cap qs
    ELSE IF \E e \in exs : e.name = exchange
         THEN {b.queue : b \in {c \in binds : c.exchange = exchange /\ c.key = key}}
    ELSE {}

Route(exs, binds, qs, exchange, key) ==
    IF exchange = "" THEN {key} \cap qs
    ELSE IF \E e \in exs : e.name = exchange /\ e.type = "fanout"
         THEN {b.queue : b \in {c \in binds : c.exchange = exchange}}
    ELSE IF \E e \in exs : e.name = exchange
         THEN {b.queue : b \in {c \in binds : c.exchange = exchange /\ c.key = key}}
    ELSE {}

Enqueue(qm, targets, m) ==
    [n \in DOMAIN qm |-> IF n \in targets THEN Append(qm[n], m) ELSE qm[n]]

\* The x-death list after one more death in `queue` for `reason`: the record
\* of that (queue, reason) gets its count raised and moves to the front; a
\* first death there puts a new record with count 1 at the front.
XDeathAfter(xd, queue, reason) ==
    LET at == {i \in 1..Len(xd) : xd[i].queue = queue /\ xd[i].reason = reason}
    IN  IF at = {}
        THEN <<[queue |-> queue, reason |-> reason, count |-> 1]>> \o xd
        ELSE LET i == CHOOSE j \in at : TRUE
             IN  <<[xd[i] EXCEPT !.count = @ + 1]>>
                   \o SubSeq(xd, 1, i - 1) \o SubSeq(xd, i + 1, Len(xd))

\* A message as the broker dead-letters it: x-death updated, the per-message
\* expiration removed so that it does not expire again in the next queue.
Died(m, queue, reason) ==
    LET h  == IF m.properties.headers = None THEN <<>> ELSE m.properties.headers[1]
        xd == IF "x-death" \in DOMAIN h THEN h["x-death"] ELSE <<>>
        nh == ("x-death" :> XDeathAfter(xd, queue, reason)) @@ h
    IN  [m EXCEPT !.properties = [headers |-> Some(nh), expiration |-> None]]

\* The queues after `m` leaves `queue` dead (rejected or expired): published to
\* the queue's x-dead-letter-exchange with its x-dead-letter-routing-key, or
\* dropped when the queue declares none.
DeadLetter(exs, binds, qa, qm, queue, m, reason) ==
    IF qa[queue] = None THEN qm
    ELSE Enqueue(qm,
                 Route(exs, binds, DOMAIN qm, qa[queue][1].dlx, qa[queue][1].key),
                 Died(m, queue, reason))

\* ------------------------------------------------------------------ state
VARIABLES
    exchanges,   \* broker: declared exchanges, records [name, type]
    bindings,    \* broker: bindings, records [exchange, queue, key]
    qargs,       \* broker: queue name -> None or Some([dlx, key])
    qmsgs,       \* broker: queue name -> the messages ready in the queue
    unacked,     \* broker: deliveries of the channel not yet acknowledged
    consumer,    \* broker: a consumer is registered on the main queue
    prefetch,    \* broker: the channel's prefetch count (0: no limit)
    pc,          \* RabbitMqConsumer.run: the statement about to run
    after,       \* run: how control leaves the try statement after finally
    fault,       \* run: the exception run() ends with ("none": no exception)
    conn,        \* run: the cycle's connection: "none", "open", "closed"
    chan,        \* run: the cycle's channel: "none", "open", "closed"
    cycle,       \* number of connections opened so far: the open one's identity
    threads,     \* run: the list of dispatch threads of the cycle
    callbacks,   \* conn: callbacks queued by add_callback_threadsafe
    cur,         \* the callback being run: None or Some([cb, next])
    nextTag,     \* the channel's next delivery tag
    published,   \* number of messages published so far
    fails,       \* connection errors raised so far
    interrupts,  \* interrupts delivered so far
    cancels,     \* consumer cancellations by the broker so far
    invoked,     \* history: body -> number of handler invocations
    chosen,      \* history: body -> what its handler invocations chose so far
    lateUse,     \* history: a confirm handle was used on a closed connection
    subscribers, \* bus: self._subscribers, topic -> [group, callback]
    consumers,   \* bus: self._consumers, the consumers start_consuming() made
    busPc,       \* bus: where start_consuming() is
    pub,         \* bus: the publish() call in progress and self._conn
    lastOn       \* history: topic -> [group, callback, n] of its latest, n-th on()

vars == <<exchanges, bindings, qargs, qmsgs, unacked, consumer, prefetch, pc,
          after, fault, conn, chan, cycle, threads, callbacks, cur, nextTag,
          published, fails, interrupts, cancels, invoked, chosen, lateUse,
          subscribers, consumers, busPc, pub, lastOn>>

topology == <<exchanges, bindings, qargs>>
environment == <<published, fails, interrupts, cancels>>
history == <<invoked, chosen, lateUse>>
bus == <<subscribers, consumers, busPc, pub, lastOn>>

\* RabbitMqMessageBus.__init__: no subscriber, no consumer, no connection; no
\* call of start_consuming() or publish() has begun.
NoPublish == [pc |-> "idle", attempt |-> 0, conn |-> "none", topic |-> "",
              errors |-> 0, placed |-> 0, result |-> "none"]

BusInit ==
    /\ subscribers = <<>>
    /\ consumers = <<>>
    /\ busPc = "idle"
    /\ pub = NoPublish
    /\ lastOn = <<>>

Bodies == 1..NumMsgs

\* What the handler passes to retry() for a message: the handler decides from
\* the body.  Bodies beyond the second use retry()'s defaults.
RetryArgs(body) ==
    IF body <= 2 THEN [delay |-> 1000, max_retries |-> body]
    ELSE [delay |-> DefaultDelay, max_retries |-> DefaultMaxRetries]

\* The statements of the try body of run().
TryBody == {"connect", "channel", "register", "qos", "basic_consume", "consuming"}

Init ==
    /\ exchanges = {}
    /\ bindings = {}
    /\ qargs = <<>>
    /\ qmsgs = <<>>
    /\ unacked = <<>>
    /\ consumer = FALSE
    /\ prefetch = 0
    /\ pc = "loop"
    /\ after = "fall"
    /\ fault = "none"
    /\ conn = "none"
    /\ chan = "none"
    /\ cycle = 0
    /\ threads = <<>>
    /\ callbacks = <<>>
    /\ cur = None
    /\ nextTag = 1
    /\ published = 0
    /\ fails = 0
    /\ interrupts = 0
    /\ cancels = 0
    /\ invoked = [b \in Bodies |-> 0]
    /\ chosen = [b \in Bodies |-> {}]
    /\ lateUse = FALSE
    /\ BusInit

\* ------------------------------------------------------ broker primitives
exchange_declare(exs, name, type) ==
    IF \E e \in exs : e.name = name THEN exs
    ELSE exs \cup {[name |-> name, type |-> type]}

\* queue_declare is idempotent: an existing queue keeps its messages.
queue_declare_args(qa, name, arguments) ==
    IF name \in DOMAIN qa THEN qa ELSE (name :> arguments) @@ qa

queue_declare_msgs(qm, name) ==
    IF name \in DOMAIN qm THEN qm ELSE (name :> <<>>) @@ qm

\* queue_bind(exchange, queue) with no routing key binds with the queue's name.
queue_bind(binds, exchange, queue) ==
    binds \cup {[exchange |-> exchange, queue |-> queue, key |-> queue]}

\* The deliveries the channel holds go back to the head of the main queue
\* when the channel or its connection closes.
Requeued(qm, un) ==
    IF un = <<>> THEN qm
    ELSE [qm EXCEPT ![MainQ] = [i \in 1..Len(un) |-> un[i].msg] \o @]

Tags(un) == {un[i].tag : i \in 1..Len(un)}

Without(un, tag) == SelectSeq(un, LAMBDA d : d.tag # tag)

Delivery(un, tag) == un[CHOOSE i \in 1..Len(un) : un[i].tag = tag]

\* ------------------------------------------------------------ bus.publish
\* _publish: declare the topic exchange (fanout, durable), publish the body
\* with routing key '' and no properties.
Publish ==
    /\ published < NumMsgs
    /\ published' = published + 1
    /\ exchanges' = exchange_declare(exchanges, exchange_name(Topic, ""), "fanout")
    /\ qmsgs' = Enqueue(qmsgs,
                        Route(exchanges', bindings, DOMAIN qmsgs,
                              exchange_name(Topic, ""), ""),
                        [body |-> published + 1, properties |-> NoProperties])
    /\ UNCHANGED <<bus, bindings, qargs, unacked, consumer, prefetch, pc, after, fault,
                   conn, chan, cycle, threads, callbacks, cur, nextTag, fails,
                   interrupts, cancels, history>>

\* --------------------------------------------------- RabbitMqConsumer.run
\* Top of the while loop: threads = [], conn = None, channel = None.
LoopTop ==
    /\ pc = "loop"
    /\ threads' = <<>>
    /\ conn' = "none"
    /\ chan' = "none"
    /\ pc' = "connect"
    /\ UNCHANGED <<bus, topology, qmsgs, unacked, consumer, prefetch, after, fault, cycle,
                   callbacks, cur, nextTag, environment, history>>

\* conn = pika.BlockingConnection(self._conn_params)
Connect ==
    /\ pc = "connect"
    /\ conn' = "open"
    /\ cycle' = cycle + 1
    /\ callbacks' = <<>>
    /\ pc' = "channel"
    /\ UNCHANGED <<bus, topology, qmsgs, unacked, consumer, prefetch, after, fault, chan,
                   threads, cur, nextTag, environment, history>>

\* channel = conn.channel()
OpenChannel ==
    /\ pc = "channel"
    /\ chan' = "open"
    /\ nextTag' = 1
    /\ prefetch' = 0
    /\ pc' = "register"
    /\ UNCHANGED <<bus, topology, qmsgs, unacked, consumer, after, fault, conn, cycle,
                   threads, callbacks, cur, environment, history>>

\* arguments of the main queue: dead-letter into the dlx route.
MainQueueArgs(topic, group) ==
    Some([dlx |-> dlx_exchange(topic, group), key |-> dlx_queue_name(topic, group)])

\* arguments of the retry queue: dead-letter back into the main queue through
\* the retry exchange.
RetryQueueArgs_fanout(topic, group) ==
    Some([dlx |-> exchange_name(topic, group), key |-> queue_name(topic, group)])

RetryQueueArgs(topic, group) ==
    Some([dlx |-> retry_exchange(topic, group), key |-> queue_name(topic, group)])

\* The broker's exchanges, queue arguments, queues and bindings after
\* register_queues for (topic, group): the eight declarations, in their order.
declared_exchanges(exs, topic, group) ==
    exchange_declare(
      exchange_declare(
        exchange_declare(exs, dlx_exchange(topic, group), "direct"),
        exchange_name(topic, group), "fanout"),
      retry_exchange(topic, group), "direct")

declared_qargs(qa, topic, group) ==
    queue_declare_args(
      queue_declare_args(
        queue_declare_args(qa, dlx_queue_name(topic, group), None),
        queue_name(topic, group), MainQueueArgs(topic, group)),
      retry_queue_name(topic, group), RetryQueueArgs(topic, group))

declared_qmsgs(qm, topic, group) ==
    queue_declare_msgs(
      queue_declare_msgs(
        queue_declare_msgs(qm, dlx_queue_name(topic, group)),
        queue_name(topic, group)),
      retry_queue_name(topic, group))

declared_bindings(binds, topic, group) ==
    queue_bind(
      queue_bind(
        queue_bind(binds, dlx_exchange(topic, group), dlx_queue_name(topic, group)),
        exchange_name(topic, group), queue_name(topic, group)),
      retry_exchange(topic, group), queue_name(topic, group))

\* self.register_queues(channel)
register_queues ==
    /\ pc = "register"
    /\ exchanges' = declared_exchanges(exchanges, Topic, Group)
    /\ qargs' = declared_qargs(qargs, Topic, Group)
    /\ qmsgs' = declared_qmsgs(qmsgs, Topic, Group)
    /\ bindings' = declared_bindings(bindings, Topic, Group)
    /\ pc' = "qos"
    /\ UNCHANGED <<bus, unacked, consumer, prefetch, after, fault, conn, chan, cycle,
                   threads, callbacks, cur, nextTag, environment, history>>

\* channel.basic_qos(prefetch_count=1)
basic_qos_omitted ==
    /\ pc = "qos"
    /\ pc' = "basic_consume"
    /\ UNCHANGED <<bus, topology, qmsgs, unacked, consumer, prefetch, after, fault,
                   conn, chan, cycle, threads, callbacks, cur, nextTag, environment,
                   history>>

basic_qos ==
    /\ pc = "qos"
    /\ prefetch' = PrefetchCount
    /\ pc' = "basic_consume"
    /\ UNCHANGED <<bus, topology, qmsgs, unacked, consumer, after, fault, conn, chan, cycle,
                   threads, callbacks, cur, nextTag, environment, history>>

\* basic_consume(..., auto_ack=False, ...)
AutoAck_on == TRUE

AutoAck == FALSE

\* channel.basic_consume(queue=queue_name, auto_ack=False, on_message_callback=...)
\* followed by the entry into channel.start_consuming().
basic_consume ==
    /\ pc = "basic_consume"
    /\ consumer' = TRUE
    /\ pc' = "consuming"
    /\ UNCHANGED <<bus, topology, qmsgs, unacked, prefetch, after, fault, conn, chan, cycle,
                   threads, callbacks, cur, nextTag, environment, history>>

\* The except clause of run() that takes an exception raised in the try body:
\* its first statement, or "propagate" when no clause matches.
ExceptClause_uncaught(exc) ==
    CASE exc = "KeyboardInterrupt" -> "kbd"
      [] OTHER -> "propagate"

ExceptClause(exc) ==
    CASE exc = "KeyboardInterrupt" -> "kbd"
      [] exc = "AMQPConnectionError" -> "sleep"
      [] OTHER -> "propagate"

\* The state run() is in once `exc`, raised in the try body, has been matched
\* against the except clauses: in a clause, or in finally with the exception
\* pending.
Raised(exc) ==
    IF ExceptClause(exc) = "propagate"
    THEN [pc |-> "join", after |-> "raise", fault |-> exc]
    ELSE [pc |-> ExceptClause(exc), after |-> after, fault |-> fault]

\* The broker's prefetch window of a channel with prefetch count `pre` and
\* the unacknowledged deliveries `un` (basic_qos, auto_ack=False): open while
\* fewer than `pre` deliveries are unacknowledged; 0 sets no limit.
WindowOpen_always(pre, un) == TRUE

WindowOpen(pre, un) == pre = 0 \/ Len(un) < pre

\* fn(ch, method, properties, body), the on_message_callback: the broker
\* delivers the head of the main queue when the prefetch window allows.
Deliver ==
    /\ pc = "consuming"
    /\ cur = None
    /\ consumer
    /\ conn = "open" /\ chan = "open"
    /\ MainQ \in DOMAIN qmsgs /\ qmsgs[MainQ] # <<>>
    /\ WindowOpen(prefetch, unacked)
    /\ LET m == Head(qmsgs[MainQ])
           rest == [qmsgs EXCEPT ![MainQ] = Tail(@)]
           handle == [conn |-> cycle, tag |-> nextTag,
                      properties |-> m.properties, body |-> m.body]
       IN  /\ nextTag' = nextTag + 1
           /\ IF message_expired(m.properties)
              THEN \* ch.basic_nack(method.delivery_tag, requeue=False)
                   /\ qmsgs' = DeadLetter(exchanges, bindings, qargs, rest, MainQ, m,
                                          "rejected")
                   /\ UNCHANGED <<unacked, threads, invoked>>
              ELSE \* t = threading.Thread(...); t.start(); threads.append(t)
                   /\ qmsgs' = rest
                   /\ unacked' = IF AutoAck THEN unacked
                                 ELSE Append(unacked, [tag |-> nextTag, msg |-> m])
                   /\ threads' = Append(threads,
                                        [handle |-> handle, alive |-> TRUE,
                                         calls |-> 0])
                   /\ invoked' = [invoked EXCEPT ![m.body] = @ + 1]
    /\ UNCHANGED <<bus, topology, consumer, prefetch, pc, after, fault, conn, chan, cycle,
                   callbacks, cur, environment, chosen, lateUse>>

\* ---------------------------------------------- broker: acknowledgements
\* Each gives the queues and the unacknowledged deliveries after the method,
\* and ok = FALSE when the delivery tag is unknown to the channel (the broker
\* then closes the channel with PRECONDITION_FAILED).
basic_ack(qm, un, tag) ==
    IF tag \in Tags(un)
    THEN [qmsgs |-> qm, unacked |-> Without(un, tag), ok |-> TRUE]
    ELSE [qmsgs |-> qm, unacked |-> un, ok |-> FALSE]

basic_nack(exs, binds, qa, qm, un, tag, requeue) ==
    IF tag \in Tags(un)
    THEN [qmsgs |-> IF requeue
                    THEN [qm EXCEPT ![MainQ] = <<Delivery(un, tag).msg>> \o @]
                    ELSE DeadLetter(exs, binds, qa, qm, MainQ,
                                    Delivery(un, tag).msg, "rejected"),
          unacked |-> Without(un, tag), ok |-> TRUE]
    ELSE [qmsgs |-> qm, unacked |-> un, ok |-> FALSE]

basic_publish(exs, binds, qm, un, exchange, key, body, properties) ==
    [qmsgs |-> Enqueue(qm, Route(exs, binds, DOMAIN qm, exchange, key),
                       [body |-> body, properties |-> properties]),
     unacked |-> un, ok |-> TRUE]

\* ------------------------------------------------ RabbitMqConsumerConfirm
\* nack(): basic_nack(delivery_tag, requeue=False)
NackRequeue_on == TRUE

NackRequeue == FALSE

\* retry()'s cb, lines 242-245: expiration = str(delay); headers = {} when
\* None; headers['x-max-retries'] = max_retries.
RetryProperties(properties, delay, max_retries) ==
    [expiration |-> Some(Str(delay)),
     headers |-> Some(("x-max-retries" :> max_retries)
                        @@ (IF properties.headers = None THEN <<>>
                            ELSE properties.headers[1]))]

\* The broker methods retry()'s cb calls, in their order.
RetrySteps_ack_first == <<"ack", "publish">>

RetrySteps == <<"publish", "ack">>

\* The broker methods of a scheduled callback, in their order.
CbOps(cb) ==
    CASE cb.kind = "ack" -> <<"ack">>
      [] cb.kind = "nack" -> <<"nack">>
      [] cb.kind = "retry" -> RetrySteps

ExecOp(op, cb) ==
    CASE op = "ack" -> basic_ack(qmsgs, unacked, cb.handle.tag)
      [] op = "nack" -> basic_nack(exchanges, bindings, qargs, qmsgs, unacked,
                                   cb.handle.tag, NackRequeue)
      [] op = "publish" ->
           basic_publish(exchanges, bindings, qmsgs, unacked, "",
                         retry_queue_name(Topic, Group), cb.handle.body,
                         RetryProperties(cb.handle.properties, cb.delay,
                                         cb.max_retries))

\* One broker method of callback cb, its i-th, run on the connection's thread
\* inside start_consuming().  An unknown delivery tag closes the channel and
\* start_consuming() raises ChannelClosedByBroker.
CallbackStep(cb, i) ==
    LET r == ExecOp(CbOps(cb)[i], cb)
    IN  IF r.ok
        THEN /\ qmsgs' = r.qmsgs
             /\ unacked' = r.unacked
             /\ cur' = IF i < Len(CbOps(cb)) THEN Some([cb |-> cb, next |-> i + 1])
                       ELSE None
             /\ UNCHANGED <<consumer, pc, after, fault, chan>>
        ELSE /\ qmsgs' = Requeued(qmsgs, unacked)
             /\ unacked' = <<>>
             /\ cur' = None
             /\ consumer' = FALSE
             /\ chan' = "closed"
             /\ pc' = Raised("ChannelClosedByBroker").pc
             /\ after' = Raised("ChannelClosedByBroker").after
             /\ fault' = Raised("ChannelClosedByBroker").fault

\* The connection's thread takes the next scheduled callback.
RunCallback ==
    /\ pc = "consuming"
    /\ conn = "open" /\ chan = "open"
    /\ cur = None
    /\ callbacks # <<>>
    /\ callbacks' = Tail(callbacks)
    /\ CallbackStep(Head(callbacks), 1)
    /\ UNCHANGED <<bus, topology, prefetch, conn, cycle, threads, nextTag, environment,
                   history>>

\* The callback being run goes on to its next broker method.
ContinueCallback ==
    /\ pc = "consuming"
    /\ conn = "open" /\ chan = "open"
    /\ cur # None
    /\ CallbackStep(cur[1].cb, cur[1].next)
    /\ UNCHANGED <<bus, topology, prefetch, conn, cycle, threads, callbacks, nextTag,
                   environment, history>>

\* A thread whose handler has returned: join() returns at once and nothing of
\* it is read again.
Finished ==
    [handle |-> [conn |-> 0, tag |-> 0, properties |-> NoProperties, body |-> 0],
     alive |-> FALSE, calls |-> 0]

\* ack(), nack() or retry() called by the handler of threads[i]:
\* self._conn.add_callback_threadsafe(cb).  A closed connection takes no
\* callback.  With `last` the call is the handler's last statement and the
\* thread ends.
Confirm(i, kind, last) ==
    LET t == threads[i]
        open == conn = "open" /\ t.handle.conn = cycle
        args == IF kind = "retry" THEN RetryArgs(t.handle.body)
                ELSE [delay |-> 0, max_retries |-> 0]
    IN  /\ t.alive
        /\ threads' = [threads EXCEPT ![i] = IF last THEN Finished
                                             ELSE [t EXCEPT !.calls = @ + 1]]
        /\ callbacks' = IF open
                        THEN Append(callbacks,
                                    [kind |-> kind, handle |-> t.handle,
                                     delay |-> args.delay,
                                     max_retries |-> args.max_retries])
                        ELSE callbacks
        /\ lateUse' = (lateUse \/ ~open)
        /\ chosen' = [chosen EXCEPT ![t.handle.body] = @ \cup {kind}]
        /\ UNCHANGED <<bus, topology, qmsgs, unacked, consumer, prefetch, pc, after, fault,
                       conn, chan, cycle, cur, nextTag, environment, invoked>>

\* The handler resolves its delivery with one call, its last statement.
HandlerAck(i) == threads[i].calls = 0 /\ Confirm(i, "ack", TRUE)

HandlerNack(i) == threads[i].calls = 0 /\ Confirm(i, "nack", TRUE)

HandlerRetry(i) == threads[i].calls = 0 /\ Confirm(i, "retry", TRUE)

\* A handler that goes on after a call and may call the confirm handle again.
HandlerCallOn(i, kind) == threads[i].calls < MaxCalls /\ Confirm(i, kind, FALSE)

\* The handler returns and its thread ends.
HandlerReturn(i) ==
    /\ threads[i].alive
    /\ threads' = [threads EXCEPT ![i] = Finished]
    /\ chosen' = [chosen EXCEPT ![threads[i].handle.body] =
                                       IF threads[i].calls = 0 THEN @ \cup {"none"}
                                       ELSE @]
    /\ UNCHANGED <<bus, topology, qmsgs, unacked, consumer, prefetch, pc, after, fault,
                   conn, chan, cycle, callbacks, cur, nextTag, environment, invoked,
                   lateUse>>

\* ------------------------------------------------------- broker: events
\* The per-message TTL of the head of a queue elapses: the message is
\* dead-lettered through the queue's dead-letter exchange.
Expire(q) ==
    /\ qmsgs[q] # <<>>
    /\ Head(qmsgs[q]).properties.expiration # None
    /\ ParseInt(Head(qmsgs[q]).properties.expiration[1]) >= 0
    /\ qmsgs' = DeadLetter(exchanges, bindings, qargs,
                           [qmsgs EXCEPT ![q] = Tail(@)], q, Head(qmsgs[q]),
                           "expired")
    /\ UNCHANGED <<bus, topology, unacked, consumer, prefetch, pc, after, fault, conn,
                   chan, cycle, threads, callbacks, cur, nextTag, environment,
                   history>>

\* pika raises AMQPConnectionError in the try body: the connection is lost or
\* cannot be opened.  The broker requeues what the channel had not acknowledged.
ConnectionError ==
    /\ fails + cancels < MaxDisruptions
    /\ pc \in TryBody
    /\ fails' = fails + 1
    /\ conn' = IF conn = "open" THEN "closed" ELSE conn
    /\ chan' = IF chan = "open" THEN "closed" ELSE chan
    /\ qmsgs' = Requeued(qmsgs, unacked)
    /\ unacked' = <<>>
    /\ consumer' = FALSE
    /\ cur' = None
    /\ callbacks' = <<>>
    /\ pc' = Raised("AMQPConnectionError").pc
    /\ after' = Raised("AMQPConnectionError").after
    /\ fault' = Raised("AMQPConnectionError").fault
    /\ UNCHANGED <<bus, topology, prefetch, cycle, threads, nextTag, published,
                   interrupts, cancels, history>>

\* The broker cancels the consumer: start_consuming() returns normally.
BrokerCancel ==
    /\ fails + cancels < MaxDisruptions
    /\ pc = "consuming"
    /\ cur = None
    /\ consumer
    /\ cancels' = cancels + 1
    /\ consumer' = FALSE
    /\ after' = "fall"
    /\ pc' = "join"
    /\ UNCHANGED <<bus, topology, qmsgs, unacked, prefetch, fault, conn, chan, cycle,
                   threads, callbacks, cur, nextTag, published, fails, interrupts,
                   history>>

\* KeyboardInterrupt raised in the try body: taken by `except KeyboardInterrupt`.
InterruptInTry ==
    /\ interrupts < MaxInterrupts
    /\ pc \in TryBody
    /\ interrupts' = interrupts + 1
    /\ cur' = None
    /\ pc' = Raised("KeyboardInterrupt").pc
    /\ after' = Raised("KeyboardInterrupt").after
    /\ fault' = Raised("KeyboardInterrupt").fault
    /\ UNCHANGED <<bus, topology, qmsgs, unacked, consumer, prefetch, conn, chan, cycle,
                   threads, callbacks, nextTag, published, fails, cancels, history>>

\* KeyboardInterrupt raised inside an except clause (during stop_consuming or
\* time.sleep): no clause takes it; finally runs and it leaves run().
InterruptInExcept ==
    /\ interrupts < MaxInterrupts
    /\ pc \in {"kbd", "sleep"}
    /\ interrupts' = interrupts + 1
    /\ pc' = "join"
    /\ after' = "raise"
    /\ fault' = "KeyboardInterrupt"
    /\ UNCHANGED <<bus, topology, qmsgs, unacked, consumer, prefetch, conn, chan, cycle,
                   threads, callbacks, cur, nextTag, published, fails, cancels,
                   history>>

\* KeyboardInterrupt raised inside the finally clause, or between two cycles:
\* it leaves run() at once and the rest of finally does not run.
InterruptInFinally ==
    /\ interrupts < MaxInterrupts
    /\ pc \in {"join", "close_ch", "close_conn", "loop"}
    /\ interrupts' = interrupts + 1
    /\ pc' = "faulted"
    /\ fault' = "KeyboardInterrupt"
    /\ UNCHANGED <<bus, topology, qmsgs, unacked, consumer, prefetch, after, conn, chan,
                   cycle, threads, callbacks, cur, nextTag, published, fails,
                   cancels, history>>

\* except KeyboardInterrupt: channel.stop_consuming(); break.  With channel
\* still None the call raises AttributeError.
StopConsuming ==
    /\ pc = "kbd"
    /\ IF chan = "none"
       THEN /\ fault' = "AttributeError"
            /\ after' = "raise"
            /\ UNCHANGED consumer
       ELSE /\ consumer' = FALSE
            /\ after' = "break"
            /\ UNCHANGED fault
    /\ pc' = "join"
    /\ UNCHANGED <<bus, topology, qmsgs, unacked, prefetch, conn, chan, cycle, threads,
                   callbacks, cur, nextTag, environment, history>>

\* except AMQPConnectionError: time.sleep(self._retry_after); continue.
Sleep ==
    /\ pc = "sleep"
    /\ after' = "continue"
    /\ pc' = "join"
    /\ UNCHANGED <<bus, topology, qmsgs, unacked, consumer, prefetch, fault, conn, chan,
                   cycle, threads, callbacks, cur, nextTag, environment, history>>

\* finally: for thread in threads: thread.join()
JoinThreads ==
    /\ pc = "join"
    /\ \A i \in 1..Len(threads) : ~threads[i].alive
    /\ pc' = "close_ch"
    /\ UNCHANGED <<bus, topology, qmsgs, unacked, consumer, prefetch, after, fault, conn,
                   chan, cycle, threads, callbacks, cur, nextTag, environment,
                   history>>

\* finally: if channel and channel.is_open: channel.close()
CloseChannel ==
    /\ pc = "close_ch"
    /\ IF chan = "open"
       THEN /\ chan' = "closed"
            /\ qmsgs' = Requeued(qmsgs, unacked)
            /\ unacked' = <<>>
            /\ consumer' = FALSE
       ELSE UNCHANGED <<chan, qmsgs, unacked, consumer>>
    /\ pc' = "close_conn"
    /\ UNCHANGED <<bus, topology, prefetch, after, fault, conn, cycle, threads, callbacks,
                   cur, nextTag, environment, history>>

\* finally: if conn and conn.is_open: conn.close(); then control leaves the
\* try statement the way the try body or the except clause left it.
CloseConnection ==
    /\ pc = "close_conn"
    /\ IF conn = "open"
       THEN /\ conn' = "closed"
            /\ callbacks' = <<>>
       ELSE UNCHANGED <<conn, callbacks>>
    /\ pc' = CASE after = "break" -> "stopped"
               [] after = "raise" -> "faulted"
               [] OTHER -> "loop"
    /\ UNCHANGED <<bus, topology, qmsgs, unacked, consumer, prefetch, after, fault, chan,
                   cycle, threads, cur, nextTag, environment, history>>

\* run() has ended with its connection still open and the last handler thread
\* is done: the consumer's process exits and the broker sees the socket close.
ProcessExit ==
    /\ pc \in {"stopped", "faulted"}
    /\ conn = "open"
    /\ \A i \in 1..Len(threads) : ~threads[i].alive
    /\ conn' = "closed"
    /\ chan' = IF chan = "open" THEN "closed" ELSE chan
    /\ qmsgs' = Requeued(qmsgs, unacked)
    /\ unacked' = <<>>
    /\ consumer' = FALSE
    /\ callbacks' = <<>>
    /\ UNCHANGED <<bus, topology, prefetch, pc, after, fault, cycle, threads, cur, nextTag,
                   environment, history>>

\* ---------------------------------------------------------- specification
ConsumerStep ==
    \/ LoopTop
    \/ Connect
    \/ OpenChannel
    \/ register_queues
    \/ basic_qos
    \/ basic_consume
    \/ Deliver
    \/ RunCallback
    \/ ContinueCallback
    \/ StopConsuming
    \/ Sleep
    \/ JoinThreads
    \/ CloseChannel
    \/ CloseConnection

HandlerStep ==
    \E i \in 1..Len(threads) :
        \/ HandlerAck(i)
        \/ HandlerNack(i)
        \/ HandlerRetry(i)
        \/ HandlerReturn(i)

BrokerStep ==
    \/ \E q \in DOMAIN qmsgs : Expire(q)
    \/ BrokerCancel
    \/ ProcessExit

EnvironmentStep ==
    \/ Publish
    \/ ConnectionError
    \/ InterruptInTry
    \/ InterruptInExcept
    \/ InterruptInFinally

Next == ConsumerStep \/ HandlerStep \/ BrokerStep \/ EnvironmentStep

Spec == Init /\ [][Next]_vars

\* A handler may call its confirm handle more than once, on the first
\* MaxMisused deliveries of a message.
MisuseStep ==
    \E i \in 1..Len(threads) : \E kind \in {"ack", "nack", "retry"} :
        /\ threads[i].alive
        /\ invoked[threads[i].handle.body] <= MaxMisused
        /\ HandlerCallOn(i, kind)

\* The consumer with such handlers, on a broker that stays reachable and with
\* no interrupt.
NextMisuse ==
    \/ LoopTop
    \/ Connect
    \/ OpenChannel
    \/ register_queues
    \/ basic_qos
    \/ basic_consume
    \/ Deliver
    \/ RunCallback
    \/ ContinueCallback
    \/ JoinThreads
    \/ CloseChannel
    \/ CloseConnection
    \/ HandlerStep
    \/ MisuseStep
    \/ Publish
    \/ \E q \in DOMAIN qmsgs : Expire(q)

SpecMisuse == Init /\ [][NextMisuse]_vars

\* The scheduling the consumer relies on: run() and the connection's thread
\* keep running, every handler thread runs until its handler returns, and a
\* per-message TTL elapses.
Fairness ==
    /\ WF_vars(ConsumerStep)
    /\ WF_vars(HandlerStep)
    /\ WF_vars(\E q \in DOMAIN qmsgs : Expire(q))

LiveSpec == Init /\ [][Next]_vars /\ Fairness

\* ------------------------------------------- deliveries of any properties
\* Bounds of the properties a delivery is tried with.
MaxCount == 3
MaxRetriesHeader == 2

XDeathValues ==
    {<<>>} \cup {<<[queue |-> RetryQ, reason |-> "expired", count |-> c]>> :
                   c \in 1..MaxCount}

\* Headers a message can reach the main queue with: None, an empty dict, and
\* dicts holding x-death, x-max-retries, both or another key.
HeaderValues ==
    {None, Some(<<>>), Some("k" :> "v")}
      \cup {Some("x-death" :> xd) : xd \in XDeathValues}
      \cup {Some("x-max-retries" :> n) : n \in 0..MaxRetriesHeader}
      \cup {Some(("x-death" :> xd) @@ ("x-max-retries" :> n)) :
              xd \in XDeathValues, n \in 0..MaxRetriesHeader}

\* The consumer is inside start_consuming() on a declared topology and the
\* main queue holds two messages, the first with any of the headers.
InitDeliver ==
    /\ exchanges = {[name |-> dlx_exchange(Topic, Group), type |-> "direct"],
                    [name |-> exchange_name(Topic, Group), type |-> "fanout"],
                    [name |-> retry_exchange(Topic, Group), type |-> "direct"]}
    /\ bindings = {[exchange |-> dlx_exchange(Topic, Group), queue |-> DlxQ,
                    key |-> DlxQ],
                   [exchange |-> exchange_name(Topic, Group), queue |-> MainQ,
                    key |-> MainQ],
                   [exchange |-> retry_exchange(Topic, Group), queue |-> MainQ,
                    key |-> MainQ]}
    /\ qargs = (DlxQ :> None)
                 @@ (MainQ :> Some([dlx |-> dlx_exchange(Topic, Group), key |-> DlxQ]))
                 @@ (RetryQ :> Some([dlx |-> retry_exchange(Topic, Group),
                                     key |-> MainQ]))
    /\ \E h \in HeaderValues :
          qmsgs = (DlxQ :> <<>>) @@ (RetryQ :> <<>>)
                    @@ (MainQ :> <<[body |-> 1,
                                    properties |-> [headers |-> h,
                                                    expiration |-> None]],
                                   [body |-> 2, properties |-> NoProperties]>>)
    /\ unacked = <<>>
    /\ consumer = TRUE
    /\ prefetch = PrefetchCount
    /\ pc = "consuming"
    /\ after = "fall"
    /\ fault = "none"
    /\ conn = "open"
    /\ chan = "open"
    /\ cycle = 1
    /\ threads = <<>>
    /\ callbacks = <<>>
    /\ cur = None
    /\ nextTag = 1
    /\ published = NumMsgs
    /\ fails = 0
    /\ interrupts = 0
    /\ cancels = 0
    /\ invoked = [b \in Bodies |-> 0]
    /\ chosen = [b \in Bodies |-> {}]
    /\ lateUse = FALSE
    /\ BusInit

NextDeliver ==
    \/ Deliver
    \/ RunCallback
    \/ ContinueCallback
    \/ HandlerStep
    \/ \E q \in DOMAIN qmsgs : Expire(q)

SpecDeliver == InitDeliver /\ [][NextDeliver]_vars

\* ---------------------------------------------- RabbitMqMessageBus.publish
\* Number of AMQP errors the broker side may raise against the publisher.
MaxPubErrors == 2

\* publish(): what follows an AMQPError raised by _publish.  The first call
\* stands in the try body and `except AMQPError` calls _publish again; the
\* second call stands in the except clause, where no handler takes its error.
AfterPublishError_loop(attempt) == "retry"

AfterPublishError(attempt) == IF attempt = 1 THEN "retry" ELSE "raise"

\* publish(topic_name, message) is called: try: self._publish(...)
publish ==
    /\ pub.pc = "idle"
    /\ published < NumMsgs
    /\ published' = published + 1
    /\ pub' = [pub EXCEPT !.pc = "connect", !.attempt = 1, !.topic = Topic,
                          !.placed = 0, !.result = "none"]
    /\ UNCHANGED <<topology, qmsgs, unacked, consumer, prefetch, pc, after, fault,
                   conn, chan, cycle, threads, callbacks, cur, nextTag, fails,
                   interrupts, cancels, history, subscribers, consumers, busPc,
                   lastOn>>

\* What a step of publish() leaves as it is, the broker aside.
PublishFrame ==
    UNCHANGED <<unacked, consumer, prefetch, pc, after, fault, conn, chan, cycle,
                threads, callbacks, cur, nextTag, environment, history, subscribers,
                consumers, busPc, lastOn>>

\* _connect(): if not self._conn or self._conn.is_closed: open a connection.
bus_connect ==
    /\ pub.pc = "connect"
    /\ pub' = [pub EXCEPT !.pc = "channel",
                          !.conn = IF pub.conn \in {"none", "closed"} THEN "open"
                                   ELSE @]
    /\ UNCHANGED <<topology, qmsgs>>
    /\ PublishFrame

\* channel = self._conn.channel()
bus_channel ==
    /\ pub.pc = "channel"
    /\ pub' = [pub EXCEPT !.pc = "exchange_declare"]
    /\ UNCHANGED <<topology, qmsgs>>
    /\ PublishFrame

\* channel.exchange_declare(exchange=exchange_name, exchange_type='fanout', ...)
bus_exchange_declare ==
    /\ pub.pc = "exchange_declare"
    /\ exchanges' = exchange_declare(exchanges, exchange_name(pub.topic, ""), "fanout")
    /\ pub' = [pub EXCEPT !.pc = "basic_publish"]
    /\ UNCHANGED <<bindings, qargs, qmsgs>>
    /\ PublishFrame

\* channel.basic_publish(exchange=exchange_name, routing_key='', body=message)
bus_basic_publish ==
    /\ pub.pc = "basic_publish"
    /\ qmsgs' = Enqueue(qmsgs,
                        Route(exchanges, bindings, DOMAIN qmsgs,
                              exchange_name(pub.topic, ""), ""),
                        [body |-> published, properties |-> NoProperties])
    /\ pub' = [pub EXCEPT !.pc = "close", !.placed = @ + 1]
    /\ UNCHANGED topology
    /\ PublishFrame

\* channel.close(); _publish and publish return.
bus_channel_close ==
    /\ pub.pc = "close"
    /\ pub' = [pub EXCEPT !.pc = "idle", !.result = "returned"]
    /\ UNCHANGED <<topology, qmsgs>>
    /\ PublishFrame

\* A statement of _publish raises an AMQPError: a connection error leaves
\* self._conn closed (or unopened), a channel error leaves it open.
AMQPError(kind) ==
    /\ pub.pc \in {"connect", "channel", "exchange_declare", "basic_publish", "close"}
    /\ pub.errors < MaxPubErrors
    /\ kind = "channel" => pub.pc # "connect"
    /\ pub' = [pub EXCEPT
                 !.errors = @ + 1,
                 !.conn = IF kind = "connection" /\ @ = "open" THEN "closed" ELSE @,
                 !.attempt = IF AfterPublishError(pub.attempt) = "retry"
                             THEN @ + 1 ELSE @,
                 !.pc = IF AfterPublishError(pub.attempt) = "retry"
                        THEN "connect" ELSE "idle",
                 !.result = IF AfterPublishError(pub.attempt) = "retry"
                            THEN @ ELSE "raised"]
    /\ UNCHANGED <<topology, qmsgs>>
    /\ PublishFrame

\* The bus publishes to a broker that holds the subscription's topology (its
\* queues are durable) while no consumer is connected.
InitPublish ==
    /\ exchanges = declared_exchanges({}, Topic, Group)
    /\ bindings = declared_bindings({}, Topic, Group)
    /\ qargs = declared_qargs(<<>>, Topic, Group)
    /\ qmsgs = declared_qmsgs(<<>>, Topic, Group)
    /\ unacked = <<>>
    /\ consumer = FALSE
    /\ prefetch = 0
    /\ pc = "loop"
    /\ after = "fall"
    /\ fault = "none"
    /\ conn = "none"
    /\ chan = "none"
    /\ cycle = 0
    /\ threads = <<>>
    /\ callbacks = <<>>
    /\ cur = None
    /\ nextTag = 1
    /\ published = 0
    /\ fails = 0
    /\ interrupts = 0
    /\ cancels = 0
    /\ invoked = [b \in Bodies |-> 0]
    /\ chosen = [b \in Bodies |-> {}]
    /\ lateUse = FALSE
    /\ BusInit

NextPublish ==
    \/ publish
    \/ bus_connect
    \/ bus_channel
    \/ bus_exchange_declare
    \/ bus_basic_publish
    \/ bus_channel_close
    \/ \E kind \in {"connection", "channel"} : AMQPError(kind)

SpecPublish == InitPublish /\ [][NextPublish]_vars

\* ------------------------------- RabbitMqMessageBus.on, start_consuming
\* The position of topic_name among the keys of self._subscribers (0: absent).
IndexOf(subs, topic) ==
    IF \E i \in 1..Len(subs) : subs[i].topic = topic
    THEN CHOOSE i \in 1..Len(subs) : subs[i].topic = topic
    ELSE 0

\* self._subscribers[topic_name] = (client_group, callback): a dict keeps one
\* value per key, at the place of the key's first insertion.
SetItem_append(subs, topic, group, callback) ==
    Append(subs, [topic |-> topic, group |-> group, callback |-> callback])

SetItem(subs, topic, group, callback) ==
    IF IndexOf(subs, topic) = 0
    THEN Append(subs, [topic |-> topic, group |-> group, callback |-> callback])
    ELSE [subs EXCEPT ![IndexOf(subs, topic)] =
                         [topic |-> topic, group |-> group, callback |-> callback]]

\* Number of on() calls per topic.
MaxOn == 2

\* How many times on() was called for the topic.
Registrations(topic) == IF topic \in DOMAIN lastOn THEN lastOn[topic].n ELSE 0

\* on(topic_name, client_group, callback)
on(topic, group, callback) ==
    /\ busPc = "idle"
    /\ Registrations(topic) < MaxOn
    /\ subscribers' = SetItem(subscribers, topic, group, callback)
    /\ lastOn' = (topic :> [group |-> group, callback |-> callback,
                            n |-> Registrations(topic) + 1]) @@ lastOn
    /\ UNCHANGED <<topology, qmsgs, unacked, consumer, prefetch, pc, after, fault,
                   conn, chan, cycle, threads, callbacks, cur, nextTag, published,
                   fails, interrupts, cancels, history, consumers, busPc, pub>>

\* What a step of start_consuming() or of a consumer it made leaves as it is.
BusFrame ==
    UNCHANGED <<topology, qmsgs, unacked, consumer, prefetch, pc, after, fault, conn,
                chan, threads, callbacks, cur, nextTag, published, fails, cancels,
                history, subscribers, pub, lastOn>>

\* RabbitMqConsumer(self._conn_params, topic_name, client_group, callback) for
\* an entry of the registry; `unit` is where its run() executes.
NewConsumer(entry, unit) ==
    [topic |-> entry.topic, group |-> entry.group, callback |-> entry.callback,
     unit |-> unit, state |-> "running", conn |-> 0]

\* start_consuming(): the branch taken on consumer_count.
Branch_spawns(count) == IF count = 0 THEN "returned" ELSE "spawn"

Branch(count) ==
    IF count = 0 THEN "returned" ELSE IF count = 1 THEN "inline" ELSE "spawn"

\* start_consuming() is called: with no subscriber it returns; with one it
\* makes the consumer and calls consumer.run(); with more it enters the loop.
start_consuming ==
    /\ busPc = "idle"
    /\ busPc' = Branch(Len(subscribers))
    /\ consumers' = IF Branch(Len(subscribers)) = "inline"
                    THEN Append(consumers, NewConsumer(subscribers[1], "inline"))
                    ELSE consumers
    /\ UNCHANGED <<cycle, interrupts>>
    /\ BusFrame

\* for topic_name, (client_group, callback) in self._subscribers.items():
\* make the consumer, append it, consumer.start(); after the last the
\* function ends.
spawn ==
    /\ busPc = "spawn"
    /\ IF Len(consumers) < Len(subscribers)
       THEN /\ consumers' = Append(consumers,
                                   NewConsumer(subscribers[Len(consumers) + 1],
                                               "process"))
            /\ UNCHANGED busPc
       ELSE /\ busPc' = "returned"
            /\ UNCHANGED consumers
    /\ UNCHANGED <<cycle, interrupts>>
    /\ BusFrame

\* run() of consumer i opens its connection: pika.BlockingConnection(...).
ConsumerConnects(i) ==
    /\ consumers[i].state = "running"
    /\ consumers[i].conn = 0
    /\ cycle' = cycle + 1
    /\ consumers' = [consumers EXCEPT ![i].conn = cycle + 1]
    /\ UNCHANGED <<busPc, interrupts>>
    /\ BusFrame

\* The process-level interrupt reaches every running consumer.
InterruptAll ==
    /\ interrupts < MaxInterrupts
    /\ \E i \in 1..Len(consumers) : consumers[i].state = "running"
    /\ interrupts' = interrupts + 1
    /\ consumers' = [i \in 1..Len(consumers) |->
                       IF consumers[i].state = "running"
                       THEN [consumers[i] EXCEPT !.state = "interrupted"]
                       ELSE consumers[i]]
    /\ UNCHANGED <<busPc, cycle>>
    /\ BusFrame

\* run() of consumer i ends, after an interrupt or with a fault.
ConsumerExits(i) ==
    /\ consumers[i].state \in {"running", "interrupted"}
    /\ consumers' = [consumers EXCEPT ![i].state = "exited"]
    /\ UNCHANGED <<busPc, cycle, interrupts>>
    /\ BusFrame

\* consumer.run() returns to start_consuming(), which returns.
InlineReturns ==
    /\ busPc = "inline"
    /\ consumers[Len(consumers)].state = "exited"
    /\ busPc' = "returned"
    /\ UNCHANGED <<consumers, cycle, interrupts>>
    /\ BusFrame

NextBus ==
    \/ \E topic \in TopicNames, group \in GroupNames, callback \in Handlers :
          on(topic, group, callback)
    \/ start_consuming
    \/ spawn
    \/ \E i \in 1..Len(consumers) : ConsumerConnects(i)
    \/ InterruptAll
    \/ \E i \in 1..Len(consumers) : ConsumerExits(i)
    \/ InlineReturns

SpecBus == Init /\ [][NextBus]_vars

\* --------------------------------------- several subscriptions, one broker
\* max_retries the handlers pass to retry().
FanMaxRetries == 1

\* The (topic, group) pairs consumers subscribe with.
Subscriptions == TopicNames \X GroupNames

\* The deliveries consumer i holds on its channel.
HeldBy(un, i) == SelectSeq(un, LAMBDA d : d.consumer = i)

\* Consumers of two distinct subscriptions run against one broker, two of
\* them in the group of the first; the broker is empty and nothing is
\* declared.
InitFanout ==
    /\ \E s1 \in Subscriptions, s2 \in Subscriptions :
          /\ s1 # s2
          /\ consumers =
               <<NewConsumer([topic |-> s1[1], group |-> s1[2], callback |-> "h1"],
                             "process"),
                 NewConsumer([topic |-> s1[1], group |-> s1[2], callback |-> "h1"],
                             "process"),
                 NewConsumer([topic |-> s2[1], group |-> s2[2], callback |-> "h2"],
                             "process")>>
    /\ exchanges = {}
    /\ bindings = {}
    /\ qargs = <<>>
    /\ qmsgs = <<>>
    /\ unacked = <<>>
    /\ consumer = FALSE
    /\ prefetch = 0
    /\ pc = "loop"
    /\ after = "fall"
    /\ fault = "none"
    /\ conn = "none"
    /\ chan = "none"
    /\ cycle = 0
    /\ threads = <<>>
    /\ callbacks = <<>>
    /\ cur = None
    /\ nextTag = 1
    /\ published = 0
    /\ fails = 0
    /\ interrupts = 0
    /\ cancels = 0
    /\ invoked = [b \in Bodies |-> 0]
    /\ chosen = [b \in Bodies |-> {}]
    /\ lateUse = FALSE
    /\ subscribers = <<>>
    /\ busPc = "returned"
    /\ pub = NoPublish
    /\ lastOn = <<>>

\* What the steps of the consumers and of the publisher leave as it is.
FanFrame ==
    UNCHANGED <<consumer, prefetch, pc, after, fault, conn, chan, cycle, threads,
                callbacks, cur, nextTag, fails, interrupts, cancels, history,
                subscribers, busPc, pub, lastOn>>

\* run() of consumer i up to basic_consume: register_queues for its
\* subscription, basic_qos, basic_consume on its main queue.
FanRegister(i) ==
    /\ consumers[i].state = "running"
    /\ exchanges' = declared_exchanges(exchanges, consumers[i].topic,
                                       consumers[i].group)
    /\ qargs' = declared_qargs(qargs, consumers[i].topic, consumers[i].group)
    /\ qmsgs' = declared_qmsgs(qmsgs, consumers[i].topic, consumers[i].group)
    /\ bindings' = declared_bindings(bindings, consumers[i].topic,
                                     consumers[i].group)
    /\ consumers' = [consumers EXCEPT ![i].state = "consuming"]
    /\ UNCHANGED <<unacked, published>>
    /\ FanFrame

\* _publish(topic_name, message): the body names its topic and its number.
FanPublish(topic) ==
    /\ published < NumMsgs
    /\ published' = published + 1
    /\ exchanges' = exchange_declare(exchanges, exchange_name(topic, ""), "fanout")
    /\ qmsgs' = Enqueue(qmsgs,
                        Route(exchanges', bindings, DOMAIN qmsgs,
                              exchange_name(topic, ""), ""),
                        [body |-> <<topic, published + 1>>,
                         properties |-> NoProperties])
    /\ UNCHANGED <<bindings, qargs, unacked, consumers>>
    /\ FanFrame

\* The broker delivers the head of consumer i's main queue to it.
FanDeliver(i) ==
    LET q == queue_name(consumers[i].topic, consumers[i].group)
    IN  /\ consumers[i].state = "consuming"
        /\ qmsgs[q] # <<>>
        /\ WindowOpen(PrefetchCount, HeldBy(unacked, i))
        /\ unacked' = Append(unacked, [consumer |-> i, queue |-> q,
                                       msg |-> Head(qmsgs[q])])
        /\ qmsgs' = [qmsgs EXCEPT ![q] = Tail(@)]
        /\ UNCHANGED <<topology, published, consumers>>
        /\ FanFrame

\* The delivery consumer i holds is resolved: fn nacks an expired message;
\* otherwise the handler calls ack(), nack() or retry(max_retries).
FanResolve(i, kind) ==
    /\ HeldBy(unacked, i) # <<>>
    /\ LET d == HeldBy(unacked, i)[1]
           rest == SelectSeq(unacked, LAMBDA e : e.consumer # i)
       IN  /\ unacked' = rest
           /\ qmsgs' =
                IF message_expired(d.msg.properties) \/ kind = "nack"
                THEN DeadLetter(exchanges, bindings, qargs, qmsgs, d.queue, d.msg,
                                "rejected")
                ELSE IF kind = "retry"
                THEN basic_publish(exchanges, bindings, qmsgs, rest, "",
                                   retry_queue_name(consumers[i].topic,
                                                    consumers[i].group),
                                   d.msg.body,
                                   RetryProperties(d.msg.properties, DefaultDelay,
                                                   FanMaxRetries)).qmsgs
                ELSE qmsgs
    /\ UNCHANGED <<topology, published, consumers>>
    /\ FanFrame

NextFanout ==
    \/ \E i \in 1..3 : FanRegister(i)
    \/ \E topic \in TopicNames : FanPublish(topic)
    \/ \E i \in 1..3 : FanDeliver(i)
    \/ \E i \in 1..3, kind \in {"ack", "nack", "retry"} : FanResolve(i, kind)
    \/ \E q \in DOMAIN qmsgs : Expire(q)

SpecFanout == InitFanout /\ [][NextFanout]_vars

\* ---------------------------------------------------------------- helpers
AllThreadsDone == \A i \in 1..Len(threads) : ~threads[i].alive

\* The messages ready in a queue (none while the queue is not declared).
Ready(q) == IF q \in DOMAIN qmsgs THEN qmsgs[q] ELSE <<>>

InSeq(seq, body) == \E i \in 1..Len(seq) : seq[i].body = body

\* The message is held by the broker: ready in a queue or unacknowledged.
Present(body) ==
    \/ \E q \in DOMAIN qmsgs : InSeq(qmsgs[q], body)
    \/ \E i \in 1..Len(unacked) : unacked[i].msg.body = body

HasKey(m, key) ==
    m.properties.headers # None /\ key \in DOMAIN m.properties.headers[1]

\* The count of the first x-death record (0 with no record).
DeathCount(m) ==
    IF HasKey(m, "x-death") /\ m.properties.headers[1]["x-death"] # <<>>
    THEN m.properties.headers[1]["x-death"][1].count
    ELSE 0

\* ------------------------------------------------------------------ C4
\* message_expired as the specification defines it: headers present, x-death
\* present with a first record, x-max-retries present (any integer, 0
\* included), and the first record's count above x-max-retries.
ExpiredAsSpecified(m) ==
    /\ HasKey(m, "x-death")
    /\ m.properties.headers[1]["x-death"] # <<>>
    /\ HasKey(m, "x-max-retries")
    /\ m.properties.headers[1]["x-death"][1].count
         > m.properties.headers[1]["x-max-retries"]

\* C4: message_expired(properties) is true exactly when the specification's
\* definition holds (x-max-retries = 0 included); a delivery for which it is
\* true is nacked without requeue and starts no dispatch thread, and one for
\* which it is false starts exactly one dispatch thread.
C4_MessageExpiredExact ==
    /\ [](\A i \in 1..Len(Ready(MainQ)) :
            message_expired(Ready(MainQ)[i].properties)
              <=> ExpiredAsSpecified(Ready(MainQ)[i]))
    /\ [][nextTag' # nextTag /\ nextTag' # 1 =>
            IF ExpiredAsSpecified(Head(qmsgs[MainQ]))
            THEN /\ threads' = threads
                 /\ unacked' = unacked
                 /\ qmsgs'[DlxQ] = Append(qmsgs[DlxQ],
                                          Died(Head(qmsgs[MainQ]), MainQ, "rejected"))
                 /\ qmsgs'[MainQ] = Tail(qmsgs[MainQ])
            ELSE /\ Len(threads') = Len(threads) + 1
                 /\ threads'[Len(threads')].alive
                 /\ threads'[Len(threads')].handle.body = Head(qmsgs[MainQ]).body
                 /\ qmsgs'[DlxQ] = qmsgs[DlxQ]]_vars

\* ------------------------------------------------------------------ C1
\* The handler of `body` chose retry on every delivery so far, and no
\* invocation for it is still undecided.
RetriedEveryDelivery(body) ==
    /\ chosen[body] = {"retry"}
    /\ \A i \in 1..Len(threads) :
          threads[i].alive => threads[i].handle.body # body

\* C1 as stated: a message whose handler calls retry(delay, max_retries=N),
\* N >= 1, on every delivery has its handler invoked at most N + 1 times.
C1_AtMostNPlusOneInvocations ==
    \A b \in Bodies :
        RetriedEveryDelivery(b) => invoked[b] <= RetryArgs(b).max_retries + 1

\* C1 as amended: every delivery handed to a handler carries a first x-death
\* count of at most its x-max-retries N; no copy of a message carries a count
\* above N + 1; a copy with count N + 1 is only ever ready on the main queue
\* (where fn nacks it) or in the dead-letter queue.
C1_RetryCeiling ==
    /\ \A i \in 1..Len(unacked) :
          HasKey(unacked[i].msg, "x-max-retries") =>
             DeathCount(unacked[i].msg)
               <= unacked[i].msg.properties.headers[1]["x-max-retries"]
    /\ \A i \in 1..Len(threads) :
          threads[i].alive
            /\ threads[i].handle.properties.headers # None
            /\ "x-max-retries" \in DOMAIN threads[i].handle.properties.headers[1]
          => DeathCount([properties |-> threads[i].handle.properties])
               <= threads[i].handle.properties.headers[1]["x-max-retries"]
    /\ \A q \in DOMAIN qmsgs : \A i \in 1..Len(qmsgs[q]) :
          HasKey(qmsgs[q][i], "x-max-retries") =>
             /\ DeathCount(qmsgs[q][i])
                  <= qmsgs[q][i].properties.headers[1]["x-max-retries"] + 1
             /\ q = RetryQ =>
                  DeathCount(qmsgs[q][i])
                    < qmsgs[q][i].properties.headers[1]["x-max-retries"] + 1

\* A message retried on each of its N + 1 deliveries has come back with count
\* N + 1 and lies in the dead-letter queue.
C1_Witness ==
    \E b \in Bodies :
        /\ RetriedEveryDelivery(b)
        /\ invoked[b] = RetryArgs(b).max_retries + 1
        /\ \E i \in 1..Len(Ready(DlxQ)) :
              /\ Ready(DlxQ)[i].body = b
              /\ Ready(DlxQ)[i].properties.headers[1]["x-death"][2].count
                   = RetryArgs(b).max_retries + 1

\* ------------------------------------------------------------------ C2
\* The copy retry() publishes for callback cb: in the retry queue with
\* expiration str(delay) and x-max-retries, or already expired from it.
RepublishedCopy(cb) ==
    \/ \E i \in 1..Len(Ready(RetryQ)) :
          /\ Ready(RetryQ)[i].body = cb.handle.body
          /\ Ready(RetryQ)[i].properties
               = RetryProperties(cb.handle.properties, cb.delay, cb.max_retries)
    \/ \E i \in 1..Len(Ready(MainQ)) :
          /\ Ready(MainQ)[i].body = cb.handle.body
          /\ DeathCount(Ready(MainQ)[i])
               = DeathCount([properties |-> cb.handle.properties]) + 1

\* C2: retry's callback republishes to the retry queue (expiration =
\* str(delay), x-max-retries = max_retries) before it acknowledges the
\* delivery, so the message is never absent from all queues: while the
\* callback is scheduled on an open channel or running, the delivery is still
\* unacknowledged,
\* when it acknowledges the copy is already held, every message in the retry
\* queue carries a TTL the broker reads as the delay, and a message whose TTL
\* expires there goes to the tail of the main queue.
C2_RetryRepublishesBeforeAck ==
    /\ [](chan = "open" =>
            \A i \in 1..Len(callbacks) :
               callbacks[i].kind = "retry" =>
                  callbacks[i].handle.tag \in Tags(unacked))
    /\ [](cur # None /\ cur[1].cb.kind = "retry" =>
            /\ cur[1].cb.handle.tag \in Tags(unacked)
            /\ RepublishedCopy(cur[1].cb))
    /\ [](\A i \in 1..Len(Ready(RetryQ)) :
            /\ Ready(RetryQ)[i].properties.expiration # None
            /\ ParseInt(Ready(RetryQ)[i].properties.expiration[1])
                 = RetryArgs(Ready(RetryQ)[i].body).delay
            /\ Ready(RetryQ)[i].properties.headers[1]["x-max-retries"]
                 = RetryArgs(Ready(RetryQ)[i].body).max_retries)
    /\ [][Len(Ready(RetryQ)') < Len(Ready(RetryQ)) =>
            /\ Ready(RetryQ)' = Tail(Ready(RetryQ))
            /\ Ready(MainQ)' = Append(Ready(MainQ),
                                      Died(Head(Ready(RetryQ)), RetryQ, "expired"))
            /\ unacked' = unacked]_vars
    /\ [][cur # None /\ cur[1].cb.kind = "retry" /\ cur' = None /\ pc' = "consuming"
            => /\ cur[1].cb.handle.tag \notin Tags(unacked')
               /\ \E b \in Bodies :
                     b = cur[1].cb.handle.body /\ Present(b)']_vars

\* retry's callback has republished and is about to acknowledge: the message
\* is both unacknowledged on the main queue and held in the retry queue.
C2_Witness ==
    /\ cur # None
    /\ cur[1].cb.kind = "retry"
    /\ cur[1].next = 2
    /\ InSeq(Ready(RetryQ), cur[1].cb.handle.body)
    /\ cur[1].cb.handle.tag \in Tags(unacked)

\* ------------------------------------------------------------------ C3
\* C3 (as the specification states it): once a handler has called nack() on a
\* delivery of a message, and nothing else, the message is never ready on the
\* main queue again.
C3_NackedNeverOnMainQueue ==
    \A b \in Bodies : chosen[b] = {"nack"} => ~InSeq(Ready(MainQ), b)

\* The connection's thread takes the scheduled callback of a nack() call.
NackExecutes ==
    /\ pc = "consuming"
    /\ callbacks # <<>>
    /\ callbacks' = Tail(callbacks)
    /\ fails' = fails
    /\ Head(callbacks).kind = "nack"

\* C3: a nack the broker executes routes the delivery to the group's
\* dead-letter queue and to no other queue: the delivery leaves the
\* unacknowledged set, the message joins the tail of <topic>.<group>__failed
\* with an x-death record (main queue, rejected), the main and the retry queue
\* are left as they were, and no later step takes a message out of the
\* dead-letter queue.
C3_NackDeadLetters ==
    /\ [][NackExecutes =>
            /\ Head(callbacks).handle.tag \in Tags(unacked)
            /\ unacked' = Without(unacked, Head(callbacks).handle.tag)
            /\ Ready(DlxQ)' =
                 Append(Ready(DlxQ),
                        Died(Delivery(unacked, Head(callbacks).handle.tag).msg,
                             MainQ, "rejected"))
            /\ Ready(MainQ)' = Ready(MainQ)
            /\ Ready(RetryQ)' = Ready(RetryQ)]_vars
    /\ [][/\ Len(Ready(DlxQ)') >= Len(Ready(DlxQ))
          /\ SubSeq(Ready(DlxQ)', 1, Len(Ready(DlxQ))) = Ready(DlxQ)]_vars

\* A message whose only outcome was a handler's nack() lies in the dead-letter
\* queue, recorded as rejected from the main queue, and is nowhere else.
C3_Witness ==
    \E b \in Bodies :
        /\ chosen[b] = {"nack"}
        /\ \E i \in 1..Len(Ready(DlxQ)) :
              /\ Ready(DlxQ)[i].body = b
              /\ Ready(DlxQ)[i].properties.headers[1]["x-death"][1]
                   = [queue |-> MainQ, reason |-> "rejected", count |-> 1]
        /\ ~InSeq(Ready(MainQ), b)
        /\ ~InSeq(Ready(RetryQ), b)

\* ------------------------------------------------------------------ C5
\* C5: whenever a connection cycle has been left (run() is about to open the
\* next connection, or has ended), every dispatch thread of the cycle has been
\* joined and the cycle's channel and connection are closed.
C5_ExitPathReleasesAll ==
    pc \in {"loop", "stopped", "faulted"} /\ cycle > 0
      => AllThreadsDone /\ chan # "open" /\ conn # "open"

\* ------------------------------------------------------------------ C6
\* C6: an interrupt that reaches a consumer which has met no connection error
\* (it is connecting, declaring its topology or consuming) leaves no exception
\* pending when finally runs: run() ends through `break`, in STOPPED, and no
\* fault is raised on the way.
C6_InterruptReachesStopped ==
    interrupts > 0 /\ fails = 0 => after # "raise"

\* ------------------------------------------------------------------ C7
\* A connection-level error is raised in the try body.
ConnectionFails == fails' > fails

AckExecutes(body) ==
    /\ pc = "consuming"
    /\ callbacks # <<>>
    /\ callbacks' = Tail(callbacks)
    /\ Head(callbacks).kind = "ack"
    /\ Head(callbacks).handle.body = body

\* `body` is next on the main queue (where the broker requeues what a closed
\* channel had not acknowledged) and its handler would be invoked for it.
Deliverable(body) ==
    /\ Ready(MainQ) # <<>>
    /\ Head(Ready(MainQ)).body = body
    /\ ~message_expired(Head(Ready(MainQ)).properties)

Delivered(body) == \E i \in 1..Len(unacked) : unacked[i].msg.body = body

\* C8: when the connection is severed every delivery not yet resolved on the
\* broker is back on the main queue; a message leaves the broker's queues and
\* unacknowledged deliveries only in a step that executes an ack for it; and,
\* with no interrupt, the message at the head of the main queue while the
\* consumer sleeps after the failure is delivered to a handler again.
C8_NoLossAcrossFailure ==
    /\ [][ConnectionFails =>
            /\ unacked' = <<>>
            /\ \A i \in 1..Len(unacked) :
                  /\ i <= Len(Ready(MainQ)')
                  /\ Ready(MainQ)'[i] = unacked[i].msg]_vars
    /\ [][\A b \in Bodies :
            Present(b) /\ ~Present(b)' => AckExecutes(b)]_vars
    /\ \A b \in Bodies :
          (pc = "sleep" /\ Deliverable(b)) ~> (Delivered(b) \/ interrupts > 0)

\* A message whose first delivery was cut off by a connection failure is
\* delivered to a handler a second time on the next connection.
C8_Witness ==
    \E b \in Bodies :
        /\ fails > 0
        /\ cycle >= 2
        /\ invoked[b] = 2
        /\ "retry" \notin chosen[b]
        /\ Delivered(b)
        /\ \E i \in 1..Len(threads) :
              /\ threads[i].alive
              /\ threads[i].handle.body = b
              /\ threads[i].handle.conn = cycle

\* ------------------------------------------------------------------ C9
\* C9: no handler calls ack(), nack() or retry() on a handle whose connection
\* is closed or is not the connection that received the delivery.
C9_NoUseAfterClose == ~lateUse

\* ------------------------------------------------------------------ C10
\* C10: at most one broker outcome action is ever scheduled for one delivery
\* tag: no two scheduled callbacks are for the same delivery.
C10_OneOutcomePerDelivery ==
    \A i, j \in 1..Len(callbacks) :
        i # j => callbacks[i].handle.tag # callbacks[j].handle.tag

\* ------------------------------------------------------------------ C11
\* C11: in every reachable state the channel holds at most one delivered but
\* unacknowledged delivery, and at most one handler thread is running.
C11_PrefetchBound ==
    /\ Len(unacked) <= 1
    /\ Cardinality({i \in 1..Len(threads) : threads[i].alive}) <= 1

\* One delivery is unacknowledged, its handler is running, and another message
\* waits on the main queue of the consuming channel.
C11_Witness ==
    /\ pc = "consuming"
    /\ consumer
    /\ prefetch = PrefetchCount
    /\ Len(unacked) = 1
    /\ \E i \in 1..Len(threads) :
          threads[i].alive /\ threads[i].handle.tag \in Tags(unacked)
    /\ Ready(MainQ) # <<>>

\* ------------------------------------------------------------------ C12
\* The channel is consuming and its thread is free to take a delivery.
Receiving ==
    /\ pc = "consuming"
    /\ consumer
    /\ conn = "open" /\ chan = "open"
    /\ cur = None

\* A handler is running and has not resolved its delivery, and the next
\* message waits on the main queue.
HandlerBlocksWithNextWaiting ==
    /\ Receiving
    /\ \E i \in 1..Len(threads) :
          threads[i].alive /\ threads[i].handle.tag \in Tags(unacked)
    /\ Ready(MainQ) # <<>>

\* C12 (as the specification states it): while one handler is still running
\* and has not resolved its delivery, the next message waiting on the queue
\* can be delivered to the consumer.
C12_BlockedHandlerDoesNotStall ==
    HandlerBlocksWithNextWaiting => ENABLED Deliver

\* C12: while a handler has not resolved its delivery the next message on the
\* queue is not delivered (prefetch 1 with manual acknowledgement); it can be
\* delivered as soon as the channel holds no unacknowledged delivery.
C12_NextDeliveryWaitsForOutcome ==
    /\ HandlerBlocksWithNextWaiting => ~ENABLED Deliver
    /\ Receiving /\ unacked = <<>> /\ Ready(MainQ) # <<>> => ENABLED Deliver

\* The first message's handler is running with its delivery unresolved while
\* the second message, not yet delivered, waits at the head of the main queue.
C12_Witness ==
    /\ HandlerBlocksWithNextWaiting
    /\ prefetch = PrefetchCount
    /\ invoked[1] = 1
    /\ invoked[2] = 0
    /\ Head(Ready(MainQ)).body = 2
    /\ ~ENABLED Deliver

\* ------------------------------------------------------------------ C13
\* C13: publish() runs _publish at most twice; the second run follows an
\* AMQPError of the first and starts by reconnecting when the connection is
\* closed; an error of the second run ends publish() with that error; a
\* publish() that returns has placed the message on the topic exchange, whose
\* bound queue holds it.
C13_PublishAtMostTwice ==
    /\ [](pub.attempt <= 2)
    /\ [][pub.attempt' > pub.attempt /\ pub.attempt >= 1 =>
            /\ pub.errors' = pub.errors + 1
            /\ pub.attempt = 1
            /\ pub.pc' = "connect"]_vars
    /\ [](pub.pc \in {"channel", "exchange_declare", "basic_publish", "close"}
            => pub.conn = "open")
    /\ [][pub.result' = "raised" /\ pub.result # "raised" =>
            pub.attempt = 2 /\ pub.errors' = pub.errors + 1]_vars
    /\ [](pub.result = "returned" =>
            /\ pub.placed >= 1
            /\ InSeq(Ready(queue_name(pub.topic, Group)), published))

\* publish() has returned after its first _publish failed with a connection
\* error: the second run reconnected and placed the message.
C13_Witness ==
    /\ pub.result = "returned"
    /\ pub.attempt = 2
    /\ pub.conn = "open"
    /\ pub.placed = 1
    /\ InSeq(Ready(MainQ), published)

\* ------------------------------------------------------------------ C14
\* C14: start_consuming() with two or more subscriptions starts one process
\* per subscription, each with its own connection, and has not returned to the
\* caller while one of them is running and no interrupt has reached them.
C14_BlocksUntilUnitsExit ==
    /\ \A i \in 1..Len(consumers), j \in 1..Len(consumers) :
          i # j /\ consumers[i].conn # 0 => consumers[i].conn # consumers[j].conn
    /\ busPc = "returned" /\ Len(subscribers) >= 2 =>
          /\ Len(consumers) = Len(subscribers)
          /\ \A i \in 1..Len(consumers) : consumers[i].unit = "process"
          /\ \A i \in 1..Len(consumers) :
                consumers[i].state \in {"exited", "interrupted"}

\* ------------------------------------------------------------------ C15
\* C15: with no subscription start_consuming() returns at once, with no
\* consumer made and no connection opened; with exactly one it makes one
\* consumer, runs it inline, starts no process, and returns only after that
\* consumer's run() has ended.
C15_ZeroAndOneSubscription ==
    /\ [][busPc = "idle" /\ busPc' # "idle" /\ Len(subscribers) = 0 =>
            busPc' = "returned" /\ consumers' = <<>> /\ cycle' = 0]_vars
    /\ [](Len(subscribers) = 0 => consumers = <<>> /\ cycle = 0)
    /\ [][busPc = "idle" /\ busPc' # "idle" /\ Len(subscribers) = 1 =>
            /\ busPc' = "inline"
            /\ Len(consumers') = 1
            /\ consumers'[1].unit = "inline"
            /\ consumers'[1].state = "running"]_vars
    /\ [](Len(subscribers) = 1 /\ busPc # "idle" =>
            /\ Len(consumers) = 1
            /\ consumers[1].unit = "inline"
            /\ (busPc = "returned" => consumers[1].state = "exited"))

\* The only subscription's consumer ran inline on its own connection, was
\* interrupted, ended, and start_consuming() returned after it.
C15_Witness ==
    /\ Len(subscribers) = 1
    /\ busPc = "returned"
    /\ Len(consumers) = 1
    /\ consumers[1].unit = "inline"
    /\ consumers[1].conn = 1
    /\ consumers[1].state = "exited"
    /\ interrupts = 1

\* ------------------------------------------------------------------ C17
\* C17: the registry holds one entry per registered topic, the (group,
\* callback) of the latest on() for that topic, and start_consuming() makes
\* one consumer per registered topic, from that entry.
C17_OneSubscriptionPerTopic ==
    /\ \A i \in 1..Len(subscribers), j \in 1..Len(subscribers) :
          subscribers[i].topic = subscribers[j].topic => i = j
    /\ {subscribers[i].topic : i \in 1..Len(subscribers)} = DOMAIN lastOn
    /\ \A i \in 1..Len(subscribers) :
          /\ subscribers[i].group = lastOn[subscribers[i].topic].group
          /\ subscribers[i].callback = lastOn[subscribers[i].topic].callback
    /\ \A i \in 1..Len(consumers), j \in 1..Len(consumers) :
          consumers[i].topic = consumers[j].topic => i = j
    /\ \A i \in 1..Len(consumers) :
          /\ consumers[i].topic \in DOMAIN lastOn
          /\ consumers[i].group = lastOn[consumers[i].topic].group
          /\ consumers[i].callback = lastOn[consumers[i].topic].callback
    /\ busPc \in {"inline", "returned"} =>
          {consumers[i].topic : i \in 1..Len(consumers)} = DOMAIN lastOn

\* A topic registered first was registered again with another group and
\* callback after a second topic; both consumers were made from the latest
\* entries.
C17_Witness ==
    /\ busPc = "returned"
    /\ Len(subscribers) = 2
    /\ Len(consumers) = 2
    /\ subscribers[1] = [topic |-> "orders", group |-> "eu.billing", callback |-> "h2"]
    /\ consumers[1].topic = "orders"
    /\ consumers[1].group = "eu.billing"
    /\ consumers[1].callback = "h2"
    /\ consumers[2].topic = "orders.eu"
    /\ Registrations("orders") = 2
    /\ Registrations("orders.eu") = 1

\* ------------------------------------------------------------------ C16
\* The main queue of consumer i's subscription.
QueueOf(i) == queue_name(consumers[i].topic, consumers[i].group)

\* How many copies of `body` are ready in queue q or held from it.
Copies(q, body) ==
    Cardinality({k \in 1..Len(qmsgs[q]) : qmsgs[q][k].body = body})
      + Cardinality({k \in 1..Len(unacked) :
                       unacked[k].queue = q /\ unacked[k].msg.body = body})

\* Consumers i and j are in two groups of one topic.
SameTopicOtherGroup(i, j) ==
    consumers[i].topic = consumers[j].topic /\ consumers[i].group # consumers[j].group

NamedAsSpecified(i) ==
    LET t == consumers[i].topic
        g == consumers[i].group
    IN  /\ exchange_name(t, g) = t
        /\ queue_name(t, g) = t \o "." \o g
        /\ retry_queue_name(t, g) = t \o "." \o g \o "__retry"
        /\ retry_exchange(t, g) = t \o "." \o g \o "__retry"
        /\ dlx_queue_name(t, g) = t \o "." \o g \o "__failed"
        /\ dlx_exchange(t, g) = t \o "." \o g \o "__failed"

\* The queues and exchanges a registered consumer i has on the broker.
QueuesOf(i) ==
    {consumers[i].topic \o "." \o consumers[i].group,
     consumers[i].topic \o "." \o consumers[i].group \o "__retry",
     consumers[i].topic \o "." \o consumers[i].group \o "__failed"}

ExchangesOf(i) ==
    {consumers[i].topic,
     consumers[i].topic \o "." \o consumers[i].group \o "__retry",
     consumers[i].topic \o "." \o consumers[i].group \o "__failed"}

Registered == {i \in 1..Len(consumers) : consumers[i].state = "consuming"}

\* C18: the six names are those of the naming scheme for every (topic,
\* group); the broker holds exactly the queues so named for the registered
\* consumers, and their exchanges; deriving and declaring them again for the
\* same (topic, group) changes nothing.
C18_NamingScheme ==
    /\ \A i \in 1..Len(consumers) : NamedAsSpecified(i)
    /\ DOMAIN qmsgs = UNION {QueuesOf(i) : i \in Registered}
    /\ UNION {ExchangesOf(i) : i \in Registered} \subseteq {e.name : e \in exchanges}
    /\ {e.name : e \in exchanges}
          \subseteq UNION {ExchangesOf(i) : i \in Registered} \cup TopicNames
    /\ \A i \in Registered :
          /\ declared_exchanges(exchanges, consumers[i].topic, consumers[i].group)
                = exchanges
          /\ declared_qargs(qargs, consumers[i].topic, consumers[i].group) = qargs
          /\ declared_qmsgs(qmsgs, consumers[i].topic, consumers[i].group) = qmsgs
          /\ declared_bindings(bindings, consumers[i].topic, consumers[i].group)
                = bindings

\* All three consumers are registered, the two of one subscription with the
\* same names, and a message waits in the retry queue of the third.
C18_Witness ==
    /\ Registered = {1, 2, 3}
    /\ consumers[3].topic = "orders.eu"
    /\ consumers[3].group = "eu.billing"
    /\ Cardinality(DOMAIN qmsgs) = 6
    /\ "orders.eu.eu.billing__retry" \in DOMAIN qmsgs
    /\ qmsgs["orders.eu.eu.billing__retry"] # <<>>

\* ------------------------------------------------------------------ C19
\* The x-death records of a message.
XDeath(m) ==
    IF m.properties.headers = None THEN <<>>
    ELSE IF "x-death" \in DOMAIN m.properties.headers[1]
         THEN m.properties.headers[1]["x-death"]
         ELSE <<>>

\* The retry queue of consumer i's subscription.
RetryQueueOf(i) == retry_queue_name(consumers[i].topic, consumers[i].group)

\* Message m went through the retry queue of consumer i's subscription.
RetriedBy(m, i) ==
    \E k \in 1..Len(XDeath(m)) :
       XDeath(m)[k].queue = RetryQueueOf(i) /\ XDeath(m)[k].reason = "expired"

\* C19: the retry queue of a group dead-letters through the group's own
\* direct exchange, which routes to the group's main queue only; a message
\* expiring from the retry queue is appended to that main queue and to no
\* other queue; no queue of another group of the topic ever holds a message
\* that went through this group's retry queue.
C19_RetryStaysInGroup ==
    /\ [](\A i \in Registered :
             /\ qargs[RetryQueueOf(i)] # None
             /\ qargs[RetryQueueOf(i)][1].dlx # exchange_name(consumers[i].topic, "")
             /\ Route(exchanges, bindings, DOMAIN qmsgs,
                      qargs[RetryQueueOf(i)][1].dlx, qargs[RetryQueueOf(i)][1].key)
                  = {QueueOf(i)})
    /\ [][\A i \in Registered :
            Len(qmsgs'[RetryQueueOf(i)]) < Len(qmsgs[RetryQueueOf(i)]) =>
               /\ qmsgs'[RetryQueueOf(i)] = Tail(qmsgs[RetryQueueOf(i)])
               /\ qmsgs'[QueueOf(i)] =
                     Append(qmsgs[QueueOf(i)],
                            Died(Head(qmsgs[RetryQueueOf(i)]), RetryQueueOf(i),
                                 "expired"))
               /\ \A q \in DOMAIN qmsgs \ {RetryQueueOf(i), QueueOf(i)} :
                     qmsgs'[q] = qmsgs[q]]_vars
    /\ [](\A i \in Registered, j \in Registered :
             SameTopicOtherGroup(i, j) =>
                /\ \A q \in QueuesOf(j) : \A k \in 1..Len(qmsgs[q]) :
                      ~RetriedBy(qmsgs[q][k], i)
                /\ \A k \in 1..Len(unacked) :
                      unacked[k].consumer = j => ~RetriedBy(unacked[k].msg, i))

\* Both groups of a topic got the first message; the first group retried it
\* and it came back from the retry queue to that group's main queue, while
\* the other group's copy still waits, never retried.
C19_Witness ==
    /\ SameTopicOtherGroup(1, 3)
    /\ Registered = {1, 2, 3}
    /\ Len(qmsgs[QueueOf(1)]) = 1
    /\ qmsgs[QueueOf(1)][1].body = <<consumers[1].topic, 1>>
    /\ RetriedBy(qmsgs[QueueOf(1)][1], 1)
    /\ Len(qmsgs[QueueOf(3)]) = 1
    /\ qmsgs[QueueOf(3)][1].body = <<consumers[1].topic, 1>>
    /\ XDeath(qmsgs[QueueOf(3)][1]) = <<>>
    /\ qmsgs[RetryQueueOf(3)] = <<>>

\* ------------------------------------------------------------------ C20
\* The queue and exchange names private to consumer i's subscription.
PrivateNames(i) ==
    {queue_name(consumers[i].topic, consumers[i].group),
     retry_queue_name(consumers[i].topic, consumers[i].group),
     retry_exchange(consumers[i].topic, consumers[i].group),
     dlx_queue_name(consumers[i].topic, consumers[i].group),
     dlx_exchange(consumers[i].topic, consumers[i].group)}

\* C20: two consumers with distinct (topic, group) share none of the names
\* derived for them, and a consumer only ever holds messages published to its
\* own topic.
C20_DisjointRoutes ==
    /\ \A i \in 1..Len(consumers), j \in 1..Len(consumers) :
          <<consumers[i].topic, consumers[i].group>>
             # <<consumers[j].topic, consumers[j].group>>
          => PrivateNames(i) \cap PrivateNames(j) = {}
    /\ \A k \in 1..Len(unacked) :
          unacked[k].msg.body[1] = consumers[unacked[k].consumer].topic
====
